---- MODULE Spec2Model ----
(***************************************************************************)
(* Model of the three batch pipelines of the repository:                   *)
(*   main.py              rename_pdf_files      (rename in place)          *)
(*   match_pdfs.py        match_and_copy_pdfs   (copy to output folder)    *)
(*   match_pdfs_by_name.py match_and_copy_pdfs  (move to output folder)    *)
(*                                                                         *)
(* A filename or a cell text is a sequence of characters; a character is a *)
(* one-token string.  The Chinese characters of the source are written in  *)
(* pinyin, one token per character:                                        *)
(*   xie shang jie chu lao dong he tong xie yi shu                         *)
(*       is the literal prefix of the agreement filenames (main.py:115),  *)
(*   cheng nuo shu is the marker word of match_pdfs_by_name.py:121.        *)
(***************************************************************************)
EXTENDS Integers, Sequences, FiniteSets, TLC

(***************************************************************************)
(* Characters and strings                                                  *)
(***************************************************************************)
Digits == {"0", "1", "2", "3", "4", "5", "6", "7", "8", "9"}

\* Python's None; it differs from every text, the empty text included.
None == <<"None">>

\* A missing spreadsheet cell (pandas NaN).
NaN == <<"NaN">>

\* str(NaN)
NanText == <<"n", "a", "n">>

PREFIX == <<"xie", "shang", "jie", "chu", "lao", "dong", "he", "tong",
            "xie", "yi", "shu", "_">>

DOTPDF == <<".", "p", "d", "f">>

MARKER == <<"cheng", "nuo", "shu">>

\* str.upper() on one character (the letters that occur in the inputs).
UpperChar(c) ==
    CASE c = "x" -> "X"
      [] c = "p" -> "P"
      [] c = "d" -> "D"
      [] c = "f" -> "F"
      [] c = "n" -> "N"
      [] c = "a" -> "A"
      [] c = "b" -> "B"
      [] c = "k" -> "K"
      [] OTHER -> c

Upper(s) == [i \in 1..Len(s) |-> UpperChar(s[i])]

\* s[i:j] in 1-based inclusive positions, empty when j < i.
Slice(s, i, j) == IF j < i THEN <<>> ELSE SubSeq(s, i, j)

\* The literal lit occurs in s at position p.
HasAt(s, p, lit) ==
    /\ p >= 1
    /\ p + Len(lit) - 1 <= Len(s)
    /\ \A k \in 1..Len(lit) : s[p + k - 1] = lit[k]

\* The same under re.IGNORECASE.
HasAtIgnoreCase(s, p, lit) ==
    /\ p >= 1
    /\ p + Len(lit) - 1 <= Len(s)
    /\ \A k \in 1..Len(lit) : UpperChar(s[p + k - 1]) = UpperChar(lit[k])

StartsWith(s, lit) == HasAt(s, 1, lit)

EndsWith(s, lit) == HasAt(s, Len(s) - Len(lit) + 1, lit)

\* s contains lit (Python's `lit in s`).
Contains(s, lit) == \E p \in 1..Len(s) : HasAt(s, p, lit)

\* str.strip(): leading and trailing blanks removed.
Strip(s) ==
    LET keep == {i \in 1..Len(s) : s[i] # " "}
    IN IF keep = {} THEN <<>>
       ELSE LET lo == CHOOSE i \in keep : \A j \in keep : i <= j
                hi == CHOOSE i \in keep : \A j \in keep : j <= i
            IN SubSeq(s, lo, hi)

\* s[p..q] is a non-empty run of digits.
AllDigits(s, p, q) == p <= q /\ q <= Len(s) /\ \A k \in p..q : s[k] \in Digits

\* str.replace(lit, ""): every non-overlapping occurrence of lit removed,
\* scanning from the left.
RECURSIVE RemoveAll(_, _)
RemoveAll(s, lit) ==
    IF s = <<>> THEN <<>>
    ELSE IF HasAt(s, 1, lit) THEN RemoveAll(Slice(s, Len(lit) + 1, Len(s)), lit)
    ELSE <<s[1]>> \o RemoveAll(Tail(s), lit)

\* str(cell).strip() for a spreadsheet cell.
CellText(cell) == IF cell = NaN THEN NanText ELSE Strip(cell)

\* pd.isna(cell) or text == 'nan' or text == ''
IsNullCell(cell) == cell = NaN \/ CellText(cell) = NanText \/ CellText(cell) = <<>>

\* str(int(float(text))) for a text of the shape digits "." digits; any other
\* text containing "." raises ValueError in float() and passes unchanged.
RECURSIVE DropLeadingZeros(_)
DropLeadingZeros(s) ==
    IF Len(s) > 1 /\ s[1] = "0" THEN DropLeadingZeros(Tail(s)) ELSE s

FloatFix(text) ==
    IF ~Contains(text, <<".">>) THEN text
    ELSE LET dot == CHOOSE p \in 1..Len(text) : text[p] = "." /\ \A q \in 1..(p - 1) : text[q] # "."
         IN IF AllDigits(text, 1, dot - 1) /\ AllDigits(text, dot + 1, Len(text))
            THEN DropLeadingZeros(SubSeq(text, 1, dot - 1))
            ELSE text

(***************************************************************************)
(* Grammar A: main.py extract_contract_number                              *)
(*   re.match(r'PREFIX(\d+)\.pdf', name): anchored at the start only.      *)
(***************************************************************************)
extract_contract_number(s) ==
    LET n == Len(PREFIX)
        ends == {j \in (n + 1)..Len(s) : AllDigits(s, n + 1, j)}
    IN IF StartsWith(s, PREFIX) /\ ends # {}
       THEN LET j == CHOOSE e \in ends : \A f \in ends : f <= e
            IN IF HasAt(s, j + 1, DOTPDF) THEN SubSeq(s, n + 1, j) ELSE None
       ELSE None

(***************************************************************************)
(* Grammar B: match_pdfs.py extract_name_and_id_from_filename              *)
(***************************************************************************)
IDLEN == 18

\* \d{17}[\dX] under re.IGNORECASE at position p of s.
IdAt(s, p) ==
    /\ p >= 1
    /\ p + IDLEN - 1 <= Len(s)
    /\ AllDigits(s, p, p + IDLEN - 2)
    /\ (s[p + IDLEN - 1] \in Digits \/ UpperChar(s[p + IDLEN - 1]) = "X")

\* re.findall(id_pattern, s): start positions of the non-overlapping matches,
\* leftmost first, scanning from position p.
RECURSIVE FindAllIds(_, _)
FindAllIds(s, p) ==
    IF p + IDLEN - 1 > Len(s) THEN <<>>
    ELSE IF IdAt(s, p) THEN <<p>> \o FindAllIds(s, p + IDLEN)
    ELSE FindAllIds(s, p + 1)

\* re.search(r"PREFIX(.+?)(\d{17}[\dX])\.pdf", s, re.IGNORECASE): the pairs
\* <<start, name length>> at which the pattern matches.
PrimaryMatches(s) ==
    UNION {{<<p, l>> : l \in {k \in 1..Len(s) :
                                /\ IdAt(s, p + Len(PREFIX) + k)
                                /\ HasAtIgnoreCase(s, p + Len(PREFIX) + k + IDLEN, DOTPDF)}} :
           p \in {q \in 1..Len(s) : HasAtIgnoreCase(s, q, PREFIX)}}

extract_name_and_id_from_filename(s) ==
    LET ms == PrimaryMatches(s)
    IN IF ms # {}
       THEN \* leftmost start, then the shortest name (non-greedy)
            LET m == CHOOSE a \in ms : \A b \in ms :
                        a[1] < b[1] \/ (a[1] = b[1] /\ a[2] <= b[2])
                q == m[1] + Len(PREFIX)
            IN <<SubSeq(s, q, q + m[2] - 1),
                 Upper(SubSeq(s, q + m[2], q + m[2] + IDLEN - 1))>>
       ELSE LET name_without_ext == RemoveAll(s, DOTPDF)
                id_matches == FindAllIds(name_without_ext, 1)
            IN IF id_matches = <<>> THEN None
               ELSE LET p == id_matches[Len(id_matches)]
                        last_id == Upper(SubSeq(name_without_ext, p, p + IDLEN - 1))
                        remaining == Slice(name_without_ext, Len(PREFIX) + 1,
                                           Len(name_without_ext))
                    IN IF StartsWith(name_without_ext, PREFIX)
                          /\ EndsWith(Upper(remaining), last_id)
                       THEN <<Slice(remaining, 1, Len(remaining) - IDLEN), last_id>>
                       ELSE None

(***************************************************************************)
(* Grammar C: match_pdfs_by_name.py extract_name_from_filename             *)
(***************************************************************************)
\* (?:\(\d+\))?\.pdf$ : the rest of s from position p is an optional
\* parenthesised digit run followed by the extension, and nothing more.
TailOK(s, p) ==
    \/ (HasAt(s, p, DOTPDF) /\ p + Len(DOTPDF) - 1 = Len(s))
    \/ /\ p <= Len(s)
       /\ s[p] = "("
       /\ \E q \in (p + 2)..Len(s) :
            /\ AllDigits(s, p + 1, q - 1)
            /\ s[q] = ")"
            /\ HasAt(s, q + 1, DOTPDF)
            /\ q + Len(DOTPDF) = Len(s)

Min(S) == CHOOSE a \in S : \A b \in S : a <= b

\* pattern1 = ^(.+?)-MARKER(?:\(\d+\))?\.pdf$ : lengths of group 1.
Pattern1Lens(s) ==
    {l \in 1..Len(s) :
        /\ HasAt(s, l + 1, <<"-">> \o MARKER)
        /\ TailOK(s, l + 2 + Len(MARKER))}

\* pattern2 = ^MARKER-(.+?)(?:\(\d+\))?\.pdf$ : lengths of group 1.
Pattern2Lens(s) ==
    {l \in 1..Len(s) :
        /\ StartsWith(s, MARKER \o <<"-">>)
        /\ TailOK(s, Len(MARKER) + 2 + l)}

\* pattern3 = ^(.+?)-(.+?)(?:\(\d+\))?\.pdf$ : pairs of group lengths.
Pattern3Lens(s) ==
    UNION {{<<a, b>> : b \in {l \in 1..Len(s) : TailOK(s, a + 2 + l)}} :
           a \in {l \in 1..Len(s) : HasAt(s, l + 1, <<"-">>)}}

\* extract_name_from_filename with pattern2 tried before pattern1.
extract_name_from_filename_P2First(s) ==
    LET l1 == Pattern1Lens(s)
        name1 == IF l1 = {} THEN <<>> ELSE Strip(SubSeq(s, 1, Min(l1)))
        l2 == Pattern2Lens(s)
        name2 == IF l2 = {} THEN <<>>
                 ELSE Strip(SubSeq(s, Len(MARKER) + 2, Len(MARKER) + 1 + Min(l2)))
        l3 == Pattern3Lens(s)
        m3 == CHOOSE a \in l3 : \A b \in l3 :
                 a[1] < b[1] \/ (a[1] = b[1] /\ a[2] <= b[2])
        part1 == Strip(SubSeq(s, 1, m3[1]))
        part2 == Strip(SubSeq(s, m3[1] + 2, m3[1] + 1 + m3[2]))
    IN IF name2 # <<>> THEN name2
       ELSE IF name1 # <<>> THEN name1
       ELSE IF l3 = {} THEN None
       ELSE IF Contains(part2, MARKER) THEN (IF part1 # <<>> THEN part1 ELSE None)
       ELSE IF Contains(part1, MARKER) THEN (IF part2 # <<>> THEN part2 ELSE None)
       ELSE None

extract_name_from_filename(s) ==
    LET l1 == Pattern1Lens(s)
        name1 == IF l1 = {} THEN <<>> ELSE Strip(SubSeq(s, 1, Min(l1)))
        l2 == Pattern2Lens(s)
        name2 == IF l2 = {} THEN <<>>
                 ELSE Strip(SubSeq(s, Len(MARKER) + 2, Len(MARKER) + 1 + Min(l2)))
        l3 == Pattern3Lens(s)
        m3 == CHOOSE a \in l3 : \A b \in l3 :
                 a[1] < b[1] \/ (a[1] = b[1] /\ a[2] <= b[2])
        part1 == Strip(SubSeq(s, 1, m3[1]))
        part2 == Strip(SubSeq(s, m3[1] + 2, m3[1] + 1 + m3[2]))
    IN IF name1 # <<>> THEN name1
       ELSE IF name2 # <<>> THEN name2
       ELSE IF l3 = {} THEN None
       ELSE IF Contains(part2, MARKER) THEN (IF part1 # <<>> THEN part1 ELSE None)
       ELSE IF Contains(part1, MARKER) THEN (IF part2 # <<>> THEN part2 ELSE None)
       ELSE None

(***************************************************************************)
(* Paths and the filesystem                                                *)
(*   folder : name -> data, the *.pdf entries of the scanned folder        *)
(*   out    : name -> [data, by], the entries of the output folder; `by`   *)
(*            tells which run wrote the entry ("pre": before the first).   *)
(***************************************************************************)
\* Position of the last "." of a name, 0 when there is none.
LastDot(n) ==
    LET dots == {i \in 1..Len(n) : n[i] = "."}
    IN IF dots = {} THEN 0 ELSE CHOOSE i \in dots : \A j \in dots : j <= i

\* pathlib's Path.suffix and Path.stem.
Suffix(n) ==
    LET i == LastDot(n)
    IN IF 1 < i /\ i < Len(n) THEN SubSeq(n, i, Len(n)) ELSE <<>>

Stem(n) ==
    LET i == LastDot(n)
    IN IF 1 < i /\ i < Len(n) THEN SubSeq(n, 1, i - 1) ELSE n

DigitSeq == <<"0", "1", "2", "3", "4", "5", "6", "7", "8", "9">>

\* str(k) for a natural number k.
RECURSIVE IntStr(_)
IntStr(k) ==
    IF k < 10 THEN <<DigitSeq[k + 1]>>
    ELSE IntStr(k \div 10) \o <<DigitSeq[(k % 10) + 1]>>

\* f"{base_name}_{counter}{ext}"
Suffixed(base_name, counter, e) == base_name \o <<"_">> \o IntStr(counter) \o e

\* What a failed copy may leave at its destination.
Garbage == <<"partial">>

Put(fs, n, v) == [x \in DOMAIN fs \cup {n} |-> IF x = n THEN v ELSE fs[x]]

Remove(fs, n) == [x \in DOMAIN fs \ {n} |-> fs[x]]

\* Path.rename(new) on the folder.
Renamed(fs, old, new) == Put(Remove(fs, old), new, fs[old])

EmptyDir == [x \in {} |-> <<>>]

(***************************************************************************)
(* Spreadsheet loaders                                                     *)
(*   a table is a record [state, rows, hasMark, marks]; a row is a record  *)
(*   [contract, name, id] of the cells of the resolved columns; a cell is  *)
(*   NaN or a text.                                                        *)
(***************************************************************************)
\* The header markers the loaders look for.
CONTRACT_MARK == <<"he", "tong", "bian", "hao">>

NAME_MARK == <<"xing", "ming">>

ID_MARK == <<"shen", "fen", "zheng", "hao">>

ID_MARK_SHORT == <<"shen", "fen", "zheng">>

\* raise ValueError(f"... 找不到'<marker>'列。可用列: {list(df.columns)}")
ColumnError(marker, columns) == [error |-> marker, columns |-> columns]

\* main.py lines 56-66: one scan over the headers from position i, each
\* header assigned to the first marker of the elif chain it contains, a later
\* header replacing an earlier one; 0 stands for None.
RECURSIVE ScanColumns(_, _, _)
ScanColumns(columns, i, found) ==
    IF i > Len(columns) THEN found
    ELSE LET col_str == Strip(columns[i])
         IN ScanColumns(columns, i + 1,
               IF Contains(col_str, CONTRACT_MARK) THEN [found EXCEPT !.contract_col = i]
               ELSE IF Contains(col_str, NAME_MARK) THEN [found EXCEPT !.name_col = i]
               ELSE IF Contains(col_str, ID_MARK) \/ Contains(col_str, ID_MARK_SHORT)
                    THEN [found EXCEPT !.id_col = i]
               ELSE found)

\* main.py read_excel_mapping, lines 56-75: the three columns, or the error
\* for the first marker that no header carries.
mapping_columns(columns) ==
    LET found == ScanColumns(columns, 1, [contract_col |-> 0, name_col |-> 0, id_col |-> 0])
    IN IF found.contract_col = 0 THEN ColumnError(CONTRACT_MARK, columns)
       ELSE IF found.name_col = 0 THEN ColumnError(NAME_MARK, columns)
       ELSE IF found.id_col = 0 THEN ColumnError(ID_MARK, columns)
       ELSE found

\* match_pdfs.py read_excel_dataframe, lines 57-70: the loop breaks at the
\* first header that contains the marker.
id_col(columns) ==
    LET hits == {i \in 1..Len(columns) :
                   \/ Contains(Strip(columns[i]), ID_MARK)
                   \/ Contains(Strip(columns[i]), ID_MARK_SHORT)}
    IN IF hits = {} THEN ColumnError(ID_MARK, columns)
       ELSE [id_col |-> CHOOSE i \in hits : \A j \in hits : i <= j]

\* match_pdfs_by_name.py read_excel_dataframe, lines 57-68
name_col(columns) ==
    LET hits == {i \in 1..Len(columns) : Contains(Strip(columns[i]), NAME_MARK)}
    IN IF hits = {} THEN ColumnError(NAME_MARK, columns)
       ELSE [name_col |-> CHOOSE i \in hits : \A j \in hits : i <= j]

\* main.py read_excel_mapping, lines 77-97: contract number -> <<name, id>>,
\* a later row replacing an earlier one with the same key.
read_excel_mapping(rows) ==
    LET valid == {i \in 1..Len(rows) : ~IsNullCell(rows[i].contract)}
        keyOf(i) == FloatFix(CellText(rows[i].contract))
        keys == {keyOf(i) : i \in valid}
    IN [k \in keys |->
          LET last == CHOOSE i \in valid :
                         keyOf(i) = k /\ \A j \in valid : keyOf(j) = k => j <= i
          IN <<CellText(rows[last].name), CellText(rows[last].id)>>]

\* match_pdfs.py read_excel_id_numbers
read_excel_id_numbers(rows) ==
    {FloatFix(CellText(rows[i].id)) :
        i \in {j \in 1..Len(rows) : ~IsNullCell(rows[j].id)}}

\* match_pdfs_by_name.py read_excel_names
read_excel_names(rows) ==
    {CellText(rows[i].name) :
        i \in {j \in 1..Len(rows) : ~IsNullCell(rows[j].name)}}

(***************************************************************************)
(* One iteration of each main loop, as a function of the filesystem, the   *)
(* loaded keys, the document, and whether the filesystem call raises.      *)
(* The result tells the new filesystem, the printed classification `kind`  *)
(* and the destination name that was composed (None when none was).       *)
(***************************************************************************)
Outcome(fs, o, k, d) == [folder |-> fs, out |-> o, kind |-> k, dest |-> d]

IsBlankText(t) == Strip(t) = <<>> \/ Strip(t) = NanText

\* RenameDoc without the existence test of line 201: the rename replaces
\* whatever carries the destination name.
RenameDoc_Overwrite(fs, o, mapping, f, raises) ==
    LET contract_num == extract_contract_number(f)
        name == mapping[contract_num][1]
        id_num == mapping[contract_num][2]
        new_filename == PREFIX \o name \o id_num \o DOTPDF
    IN IF contract_num = None THEN Outcome(fs, o, "skip", None)
       ELSE IF contract_num \notin DOMAIN mapping THEN Outcome(fs, o, "unmatched", None)
       ELSE IF IsBlankText(name) THEN Outcome(fs, o, "warn_name", None)
       ELSE IF IsBlankText(id_num) THEN Outcome(fs, o, "warn_id", None)
       ELSE IF raises \/ f \notin DOMAIN fs
            THEN Outcome(fs, o, "error", new_filename)
       ELSE Outcome(Renamed(fs, f, new_filename), o, "ok", new_filename)

\* RenameDoc counting a name that does not fit the grammar as a failure.
RenameDoc_SkipAsFailed(fs, o, mapping, f, raises) ==
    LET contract_num == extract_contract_number(f)
        name == mapping[contract_num][1]
        id_num == mapping[contract_num][2]
        new_filename == PREFIX \o name \o id_num \o DOTPDF
    IN IF contract_num = None THEN Outcome(fs, o, "unmatched", None)
       ELSE IF contract_num \notin DOMAIN mapping THEN Outcome(fs, o, "unmatched", None)
       ELSE IF IsBlankText(name) THEN Outcome(fs, o, "warn_name", None)
       ELSE IF IsBlankText(id_num) THEN Outcome(fs, o, "warn_id", None)
       ELSE IF new_filename \in DOMAIN fs /\ new_filename # f
            THEN Outcome(fs, o, "exists", new_filename)
       ELSE IF raises \/ f \notin DOMAIN fs
            THEN Outcome(fs, o, "error", new_filename)
       ELSE Outcome(Renamed(fs, f, new_filename), o, "ok", new_filename)

\* RenameDoc with the test of line 191 forgotten: a missing ID is pasted
\* into the new name as "nan".
RenameDoc_NoIdTest(fs, o, mapping, f, raises) ==
    LET contract_num == extract_contract_number(f)
        name == mapping[contract_num][1]
        id_num == mapping[contract_num][2]
        new_filename == PREFIX \o name \o id_num \o DOTPDF
    IN IF contract_num = None THEN Outcome(fs, o, "skip", None)
       ELSE IF contract_num \notin DOMAIN mapping THEN Outcome(fs, o, "unmatched", None)
       ELSE IF IsBlankText(name) THEN Outcome(fs, o, "warn_name", None)
       ELSE IF new_filename \in DOMAIN fs /\ new_filename # f
            THEN Outcome(fs, o, "exists", new_filename)
       ELSE IF raises \/ f \notin DOMAIN fs
            THEN Outcome(fs, o, "error", new_filename)
       ELSE Outcome(Renamed(fs, f, new_filename), o, "ok", new_filename)

\* main.py rename_pdf_files, lines 168-213
RenameDoc(fs, o, mapping, f, raises) ==
    LET contract_num == extract_contract_number(f)
        name == mapping[contract_num][1]
        id_num == mapping[contract_num][2]
        new_filename == PREFIX \o name \o id_num \o DOTPDF
    IN IF contract_num = None THEN Outcome(fs, o, "skip", None)
       ELSE IF contract_num \notin DOMAIN mapping THEN Outcome(fs, o, "unmatched", None)
       ELSE IF IsBlankText(name) THEN Outcome(fs, o, "warn_name", None)
       ELSE IF IsBlankText(id_num) THEN Outcome(fs, o, "warn_id", None)
       ELSE IF new_filename \in DOMAIN fs /\ new_filename # f
            THEN Outcome(fs, o, "exists", new_filename)
       ELSE IF raises \/ f \notin DOMAIN fs
            THEN Outcome(fs, o, "error", new_filename)
       ELSE Outcome(Renamed(fs, f, new_filename), o, "ok", new_filename)

\* FreeName with the loop of line 260 run once only.
FreeName_NoLoop(o, base_name, e, counter) == Suffixed(base_name, counter, e)

\* match_pdfs.py lines 259-263: the first free suffixed name.
RECURSIVE FreeName(_, _, _, _)
FreeName(o, base_name, e, counter) ==
    IF Suffixed(base_name, counter, e) \in DOMAIN o
    THEN FreeName(o, base_name, e, counter + 1)
    ELSE Suffixed(base_name, counter, e)

\* match_pdfs.py lines 254-263 (and match_pdfs_by_name.py lines 231-240)
DestPath(o, f) ==
    IF f \in DOMAIN o THEN FreeName(o, Stem(f), Suffix(f), 1) ELSE f

\* shutil.copy2(pdf_file, dest_path): raising, it may leave a partial file.
CopyFile(fs, o, f, dest, by, raises, residue) ==
    IF raises \/ f \notin DOMAIN fs
    THEN Outcome(fs,
                 IF residue = "partial" THEN Put(o, dest, [data |-> Garbage, by |-> by])
                 ELSE o,
                 "error", dest)
    ELSE Outcome(fs, Put(o, dest, [data |-> fs[f], by |-> by]), "ok", dest)

\* MoveFile that copies and leaves the source in the folder.
MoveFile_SourceKept(fs, o, f, dest, by, raises, residue) ==
    IF raises \/ f \notin DOMAIN fs
    THEN Outcome(fs,
                 IF residue = "partial" THEN Put(o, dest, [data |-> Garbage, by |-> by])
                 ELSE IF residue = "copied" /\ f \in DOMAIN fs
                      THEN Put(o, dest, [data |-> fs[f], by |-> by])
                 ELSE o,
                 "error", dest)
    ELSE Outcome(fs, Put(o, dest, [data |-> fs[f], by |-> by]), "ok", dest)

\* shutil.move(src, dst): os.rename, else copy2 then unlink; raising, it may
\* leave nothing, a partial destination, or a full copy with the source kept.
MoveFile(fs, o, f, dest, by, raises, residue) ==
    IF raises \/ f \notin DOMAIN fs
    THEN Outcome(fs,
                 IF residue = "partial" THEN Put(o, dest, [data |-> Garbage, by |-> by])
                 ELSE IF residue = "copied" /\ f \in DOMAIN fs
                      THEN Put(o, dest, [data |-> fs[f], by |-> by])
                 ELSE o,
                 "error", dest)
    ELSE Outcome(Remove(fs, f), Put(o, dest, [data |-> fs[f], by |-> by]), "ok", dest)

\* match_pdfs.py match_and_copy_pdfs, lines 233-274
CopyDoc(fs, o, excel_id_numbers, f, by, raises, residue) ==
    LET name_id_result == extract_name_and_id_from_filename(f)
    IN IF name_id_result = None THEN Outcome(fs, o, "skip", None)
       ELSE IF name_id_result[2] \notin excel_id_numbers
            THEN Outcome(fs, o, "unmatched", None)
       ELSE CopyFile(fs, o, f, DestPath(o, f), by, raises, residue)

\* match_pdfs_by_name.py match_and_copy_pdfs, lines 214-251
MoveDoc(fs, o, excel_names, f, by, raises, residue) ==
    LET name == extract_name_from_filename(f)
    IN IF name = None THEN Outcome(fs, o, "skip", None)
       ELSE IF name \notin excel_names THEN Outcome(fs, o, "unmatched", None)
       ELSE MoveFile(fs, o, f, DestPath(o, f), by, raises, residue)

(***************************************************************************)
(* Annotation pass and write-back (copy and move pipelines)                *)
(***************************************************************************)
SUCCESS == "chenggong"

FAILURE == "shibai"

\* pdf_id_numbers collected from the first document of the snapshot only.
pdf_id_numbers_FirstOnly(files) ==
    {Upper(r[2]) :
        r \in {extract_name_and_id_from_filename(files[i]) :
                 i \in {k \in 1..Len(files) : k = 1}} \ {None}}

\* match_pdfs.py lines 278-283
pdf_id_numbers(files) ==
    {Upper(r[2]) :
        r \in {extract_name_and_id_from_filename(files[i]) : i \in 1..Len(files)} \ {None}}

\* match_pdfs_by_name.py lines 254-258
pdf_names(files) ==
    {extract_name_from_filename(files[i]) : i \in 1..Len(files)} \ {None}

\* match_pdfs.py lines 291-292: the mark column, created empty when missing.
WithMarkColumn(df) ==
    IF df.hasMark THEN df
    ELSE [df EXCEPT !.hasMark = TRUE, !.marks = [i \in 1..Len(df.rows) |-> ""]]

\* match_pdfs.py lines 298-320
AnnotateIds(df, files) ==
    LET d == WithMarkColumn(df)
        keys == pdf_id_numbers(files)
    IN [d EXCEPT !.marks = [i \in 1..Len(d.rows) |->
          IF IsNullCell(d.rows[i].id) THEN d.marks[i]
          ELSE IF Upper(FloatFix(CellText(d.rows[i].id))) \in keys
               THEN SUCCESS ELSE FAILURE]]

\* match_pdfs_by_name.py lines 273-285
AnnotateNames(df, files) ==
    LET d == WithMarkColumn(df)
        keys == pdf_names(files)
    IN [d EXCEPT !.marks = [i \in 1..Len(d.rows) |->
          IF IsNullCell(d.rows[i].name) THEN d.marks[i]
          ELSE IF CellText(d.rows[i].name) \in keys
               THEN SUCCESS ELSE FAILURE]]

NoFile == [state |-> "none", rows |-> <<>>, hasMark |-> FALSE, marks |-> <<>>]

Corrupt == [state |-> "corrupt", rows |-> <<>>, hasMark |-> FALSE, marks |-> <<>>]

\* pd.read_excel of a table written by to_excel: an empty text cell reads
\* back as NaN.
ReadTable(t) ==
    [t EXCEPT !.marks = [i \in 1..Len(t.marks) |->
                            IF t.marks[i] = "" THEN "nan" ELSE t.marks[i]]]

\* excel_path.with_suffix(...) of lines 328 and 338: the slot of the disk that
\* backup_path names.  A spreadsheet whose own suffix is ".backup" is its own
\* backup path.
BackupSlot(e) == IF e = "backup" THEN "excel" ELSE "backup"

\* The path to_excel writes: lines 332-333 for ".xls", line 342 otherwise.
TargetSlot(e) == IF e = "xls" THEN "xlsx" ELSE "excel"

\* match_pdfs.py lines 322-344 (match_pdfs_by_name.py lines 287-309): the
\* disk after the write-back of table df, the step failAt raising; `hit`
\* tells whether that step was reached.
SaveExcel(d, e, df, failAt, residue) ==
    LET bslot == BackupSlot(e)
        target == TargetSlot(e)
        hasOld == d[bslot].state # "none"
        d1 == IF hasOld THEN [d EXCEPT ![bslot] = NoFile] ELSE d
        src == d1.excel
        d2 == IF e = "xls" THEN [d1 EXCEPT !.backup = src, !.excel = NoFile]
              ELSE [d1 EXCEPT ![bslot] = src]
        d2fail == IF e # "xls" /\ residue = "partial"
                  THEN [d1 EXCEPT ![bslot] = Corrupt] ELSE d1
        d3 == [d2 EXCEPT ![target] = df]
        d3fail == IF residue = "partial" THEN [d2 EXCEPT ![target] = Corrupt] ELSE d2
    IN IF failAt = "unlink" /\ hasOld THEN [disk |-> d, hit |-> residue = "none"]
       ELSE IF src.state = "none" THEN [disk |-> d1, hit |-> FALSE]
       ELSE IF failAt = "backup"
            THEN [disk |-> d2fail, hit |-> (e # "xls" \/ residue = "none")]
       ELSE IF failAt = "write" THEN [disk |-> d3fail, hit |-> TRUE]
       ELSE [disk |-> d3, hit |-> FALSE]

(***************************************************************************)
(* Bounds and inputs                                                       *)
(***************************************************************************)
MaxDocs == 2

MaxRows == 2

MaxFailures == 1

Pipelines == {"rename", "copy", "move"}

ZHANG == <<"zhang">>

ID17 == <<"1", "1", "0", "1", "0", "1", "1", "9", "9", "0", "0", "1", "0", "1", "1", "2", "3">>

\* rename pipeline: two contract numbers, a name that continues after ".pdf",
\* and a file already carrying a destination name.
FA1 == PREFIX \o <<"1">> \o DOTPDF
FA2 == PREFIX \o <<"2">> \o DOTPDF
FA3 == PREFIX \o <<"1">> \o DOTPDF \o <<".", "b", "a", "k">> \o DOTPDF
FD == PREFIX \o ZHANG \o <<"9">> \o DOTPDF

\* copy pipeline: the same ID with X and with x, an ID with no name before
\* it, and a name that carries no ID.
FB1 == PREFIX \o ZHANG \o ID17 \o <<"X">> \o DOTPDF
FB2 == PREFIX \o ZHANG \o ID17 \o <<"x">> \o DOTPDF
FB3 == PREFIX \o ID17 \o <<"4">> \o DOTPDF

\* move pipeline
FC1 == ZHANG \o <<"-">> \o MARKER \o <<"(", "2", ")">> \o DOTPDF
FC2 == MARKER \o <<"-">> \o ZHANG \o DOTPDF
FC3 == MARKER \o <<"-">> \o ZHANG \o <<"_", "1">> \o DOTPDF
FC4 == ZHANG \o DOTPDF

Files(p) ==
    CASE p = "rename" -> {FA1, FA2, FA3, FD}
      [] p = "copy" -> {FB1, FB2, FB3, FA1}
      [] p = "move" -> {FC1, FC2, FC3, FC4}

Row(c, n, i) == [contract |-> c, name |-> n, id |-> i]

Rows(p) ==
    CASE p = "rename" ->
            {Row(<<"1">>, ZHANG, <<"9">>),
             Row(<<"2">>, ZHANG, <<"9">>),
             Row(<<"1", ".", "0">>, ZHANG, NaN),
             Row(<<"2">>, <<" ">>, <<"9">>),
             Row(NaN, ZHANG, <<"9">>)}
      [] p = "copy" ->
            {Row(NaN, ZHANG, ID17 \o <<"X">>),
             Row(NaN, ZHANG, ID17 \o <<"x">>),
             Row(NaN, NaN, <<" ">> \o ID17 \o <<"4", " ">>),
             Row(NaN, ZHANG, NaN)}
      [] p = "move" ->
            {Row(NaN, <<" ">> \o ZHANG \o <<" ">>, NaN),
             Row(NaN, ZHANG \o <<"_", "1">>, NaN),
             Row(NaN, <<"li">>, NaN),
             Row(NaN, NaN, NaN)}

Sheets(p) == UNION {[1..n -> Rows(p)] : n \in 0..MaxRows}

\* Content of the output folder before the first run.
Pre(n) == [data |-> <<"old">> \o n, by |-> "pre"]

OutChoices(p) ==
    CASE p = "rename" -> {EmptyDir}
      [] p = "copy" ->
            {EmptyDir,
             [n \in {FB1} |-> Pre(n)],
             [n \in {FB1, Suffixed(Stem(FB1), 1, DOTPDF)} |-> Pre(n)]}
      [] p = "move" ->
            {EmptyDir,
             [n \in {FC2} |-> Pre(n)],
             [n \in {FC2, FC3} |-> Pre(n)]}

\* Suffix of the spreadsheet path.
Exts(p) == IF p = "rename" THEN {"xls"} ELSE {"xls", "xlsx", "backup"}

\* The orders in which glob may list the entries S.
Orderings(S) ==
    {s \in [1..Cardinality(S) -> S] : \A i, j \in 1..Cardinality(S) : i # j => s[i] # s[j]}

(***************************************************************************)
(* State                                                                   *)
(***************************************************************************)
VARIABLES
    pipeline,        \* which program runs
    ext,             \* excel_path.suffix.lower() without the dot
    run,             \* "first" or "second" invocation with the same arguments
    pc,              \* "start", "loop", "done", "aborted"
    folder,          \* the *.pdf entries of pdf_dir / target_dir
    out,             \* the entries of output_dir
    disk,            \* the spreadsheet files: excel_path, backup, new .xlsx
    df_excel,        \* the loaded table
    original,        \* the file at excel_path as it was when this run read it
    pdf_files,       \* the scan snapshot
    idx,             \* position of the main loop in pdf_files (1-based)
    success_count, failed_count, skipped_count,
    matched_count, unmatched_count, error_count,
    log,             \* one record per processed document of this run
    nofail,          \* this run replayed with no filesystem call raising
    failures,        \* filesystem calls that raised so far
    history,         \* log, out and pc at the end of the first run
    call,            \* a loader or extractor called on its own: [fn, arg]
    ret              \* what that call returned

counters == <<success_count, failed_count, skipped_count,
              matched_count, unmatched_count, error_count>>

vars == <<pipeline, ext, run, pc, folder, out, disk, df_excel, original,
          pdf_files, idx, counters, log, nofail, failures, history, call, ret>>

NoCall == [fn |-> "none", arg |-> <<>>]

NotReturned == [done |-> FALSE]

Returned(v) == [done |-> TRUE, value |-> v]

Table(rows) == [state |-> "ok", rows |-> rows, hasMark |-> FALSE, marks |-> <<>>]

Init ==
    \E p \in Pipelines :
      \E fs \in SUBSET Files(p), sh \in Sheets(p), o \in OutChoices(p), e \in Exts(p) :
        /\ Cardinality(fs) <= MaxDocs
        /\ pipeline = p
        /\ ext = e
        /\ run = "first"
        /\ pc = "start"
        /\ folder = [n \in fs |-> n]
        /\ out = o
        /\ disk = [excel |-> Table(sh), backup |-> NoFile, xlsx |-> NoFile]
        /\ df_excel = NoFile
        /\ original = NoFile
        /\ pdf_files = <<>>
        /\ idx = 1
        /\ success_count = 0 /\ failed_count = 0 /\ skipped_count = 0
        /\ matched_count = 0 /\ unmatched_count = 0 /\ error_count = 0
        /\ log = <<>>
        /\ nofail = [folder |-> EmptyDir, out |-> EmptyDir, log |-> <<>>]
        /\ failures = 0
        /\ history = [log |-> <<>>, out |-> EmptyDir, pc |-> "start"]
        /\ call = NoCall
        /\ ret = NotReturned

ResetCounters ==
    /\ success_count' = 0 /\ failed_count' = 0 /\ skipped_count' = 0
    /\ matched_count' = 0 /\ unmatched_count' = 0 /\ error_count' = 0

\* Setup phase: main.py lines 131-157, match_pdfs.py lines 188-221,
\* match_pdfs_by_name.py lines 169-202.
Start ==
    /\ pc = "start"
    /\ ResetCounters
    /\ idx' = 1
    /\ log' = <<>>
    /\ original' = disk.excel
    /\ nofail' = [folder |-> folder, out |-> out, log |-> <<>>]
    /\ UNCHANGED <<call, ret, pipeline, ext, run, folder, out, disk, failures, history>>
    /\ IF disk.excel.state # "ok"
       THEN /\ pc' = "aborted"
            /\ df_excel' = NoFile
            /\ pdf_files' = <<>>
       ELSE /\ df_excel' = ReadTable(disk.excel)
            /\ \E order \in Orderings(DOMAIN folder) :
                 /\ pdf_files' = order
                 /\ pc' = IF order = <<>> THEN "aborted" ELSE "loop"

Record(f, r) == [file |-> f, kind |-> r.kind, dest |-> r.dest]

\* One iteration of main.py lines 168-213.
RenameStep ==
    /\ pc = "loop" /\ pipeline = "rename" /\ idx <= Len(pdf_files)
    /\ \E f \in {pdf_files[idx]}, mapping \in {read_excel_mapping(df_excel.rows)} :
         /\ \E g \in {RenameDoc(nofail.folder, nofail.out, mapping, f, FALSE)} :
              nofail' = [folder |-> g.folder, out |-> g.out,
                         log |-> Append(nofail.log, Record(f, g))]
         /\ \E raises \in BOOLEAN :
              /\ raises => failures < MaxFailures
              /\ failures' = IF raises THEN failures + 1 ELSE failures
              /\ \E r \in {RenameDoc(folder, out, mapping, f, raises)} :
                   /\ raises => r.kind = "error"
                   /\ folder' = r.folder
                   /\ log' = Append(log, Record(f, r))
                   /\ skipped_count' = IF r.kind = "skip"
                                       THEN skipped_count + 1 ELSE skipped_count
                   /\ success_count' = IF r.kind = "ok"
                                       THEN success_count + 1 ELSE success_count
                   /\ failed_count' = IF r.kind \notin {"skip", "ok"}
                                      THEN failed_count + 1 ELSE failed_count
    /\ idx' = idx + 1
    /\ UNCHANGED <<call, ret, pipeline, ext, run, pc, out, disk, df_excel, original, pdf_files,
                   matched_count, unmatched_count, error_count, history>>

\* TallyStep with the increment of line 239 forgotten.
TallyStep_SkipNotCounted(r) ==
    /\ matched_count' = IF r.kind = "ok" THEN matched_count + 1 ELSE matched_count
    /\ error_count' = IF r.kind = "error" THEN error_count + 1 ELSE error_count
    /\ unmatched_count' = IF r.kind = "unmatched"
                          THEN unmatched_count + 1 ELSE unmatched_count

\* TallyStep with the increment of line 274 forgotten.
TallyStep_ErrorNotCounted(r) ==
    /\ matched_count' = IF r.kind = "ok" THEN matched_count + 1 ELSE matched_count
    /\ error_count' = error_count
    /\ unmatched_count' = IF r.kind \in {"skip", "unmatched"}
                          THEN unmatched_count + 1 ELSE unmatched_count

\* Counters of match_pdfs.py lines 239, 249, 271, 274.
TallyStep(r) ==
    /\ matched_count' = IF r.kind = "ok" THEN matched_count + 1 ELSE matched_count
    /\ error_count' = IF r.kind = "error" THEN error_count + 1 ELSE error_count
    /\ unmatched_count' = IF r.kind \in {"skip", "unmatched"}
                          THEN unmatched_count + 1 ELSE unmatched_count

\* One iteration of match_pdfs.py lines 233-274.
CopyStep ==
    /\ pc = "loop" /\ pipeline = "copy" /\ idx <= Len(pdf_files)
    /\ \E f \in {pdf_files[idx]}, ids \in {read_excel_id_numbers(df_excel.rows)} :
         /\ \E g \in {CopyDoc(nofail.folder, nofail.out, ids, f, run, FALSE, "none")} :
              nofail' = [folder |-> g.folder, out |-> g.out,
                         log |-> Append(nofail.log, Record(f, g))]
         /\ \E raises \in BOOLEAN, residue \in {"none", "partial"} :
              /\ raises => failures < MaxFailures
              /\ ~raises => residue = "none"
              /\ failures' = IF raises THEN failures + 1 ELSE failures
              /\ \E r \in {CopyDoc(folder, out, ids, f, run, raises, residue)} :
                   /\ raises => r.kind = "error"
                   /\ folder' = r.folder
                   /\ out' = r.out
                   /\ log' = Append(log, Record(f, r))
                   /\ TallyStep(r)
    /\ idx' = idx + 1
    /\ UNCHANGED <<call, ret, pipeline, ext, run, pc, disk, df_excel, original, pdf_files,
                   success_count, failed_count, skipped_count, history>>

\* One iteration of match_pdfs_by_name.py lines 214-251.
MoveStep ==
    /\ pc = "loop" /\ pipeline = "move" /\ idx <= Len(pdf_files)
    /\ \E f \in {pdf_files[idx]}, names \in {read_excel_names(df_excel.rows)} :
         /\ \E g \in {MoveDoc(nofail.folder, nofail.out, names, f, run, FALSE, "none")} :
              nofail' = [folder |-> g.folder, out |-> g.out,
                         log |-> Append(nofail.log, Record(f, g))]
         /\ \E raises \in BOOLEAN, residue \in {"none", "partial", "copied"} :
              /\ raises => failures < MaxFailures
              /\ ~raises => residue = "none"
              /\ failures' = IF raises THEN failures + 1 ELSE failures
              /\ \E r \in {MoveDoc(folder, out, names, f, run, raises, residue)} :
                   /\ raises => r.kind = "error"
                   /\ folder' = r.folder
                   /\ out' = r.out
                   /\ log' = Append(log, Record(f, r))
                   /\ TallyStep(r)
    /\ idx' = idx + 1
    /\ UNCHANGED <<call, ret, pipeline, ext, run, pc, disk, df_excel, original, pdf_files,
                   success_count, failed_count, skipped_count, history>>

\* main.py lines 215-221: the summary after the loop.
RenameFinish ==
    /\ pc = "loop" /\ pipeline = "rename" /\ idx > Len(pdf_files)
    /\ pc' = "done"
    /\ UNCHANGED <<call, ret, pipeline, ext, run, folder, out, disk, df_excel, original,
                   pdf_files, idx, counters, log, nofail, failures, history>>

\* match_pdfs.py lines 276-359 (match_pdfs_by_name.py lines 253-324): the
\* annotation pass, the write-back inside its try block, and the summary.
Annotate ==
    /\ pc = "loop" /\ pipeline \in {"copy", "move"} /\ idx > Len(pdf_files)
    /\ \E marked \in {IF pipeline = "copy" THEN AnnotateIds(df_excel, pdf_files)
                      ELSE AnnotateNames(df_excel, pdf_files)} :
         /\ df_excel' = marked
         /\ \E failAt \in {"none", "unlink", "backup", "write"},
               residue \in {"none", "partial"} :
              /\ failAt = "none" => residue = "none"
              /\ failAt # "none" => failures < MaxFailures
              /\ failures' = IF failAt # "none" THEN failures + 1 ELSE failures
              /\ \E s \in {SaveExcel(disk, ext, marked, failAt, residue)} :
                   /\ failAt # "none" => s.hit
                   /\ disk' = s.disk
    /\ pc' = "done"
    /\ UNCHANGED <<call, ret, pipeline, ext, run, folder, out, original, pdf_files, idx,
                   counters, log, nofail, history>>

\* The same command line is run a second time.
Rerun ==
    /\ pc \in {"done", "aborted"} /\ run = "first"
    /\ run' = "second"
    /\ pc' = "start"
    /\ history' = [log |-> log, out |-> out, pc |-> pc]
    /\ UNCHANGED <<call, ret, pipeline, ext, folder, out, disk, df_excel, original, pdf_files,
                   idx, counters, log, nofail, failures>>

Next ==
    \/ Start
    \/ RenameStep
    \/ CopyStep
    \/ MoveStep
    \/ RenameFinish
    \/ Annotate
    \/ Rerun

Spec == Init /\ [][Next]_vars

(***************************************************************************)
(* The loaders' column resolution and the three extractors, each called on *)
(* its own with an argument drawn from a bounded set.                      *)
(***************************************************************************)
MaxCols == 4

MaxDigits == 2

MaxSegs == 3

\* Column headers: the three markers bare, padded, inside a longer header,
\* two markers in one header, and a header with no marker.
Headers ==
    {CONTRACT_MARK,
     <<"jiu">> \o CONTRACT_MARK,
     <<" ">> \o NAME_MARK \o <<" ">>,
     <<"yuan", "gong">> \o NAME_MARK,
     ID_MARK,
     ID_MARK_SHORT,
     CONTRACT_MARK \o NAME_MARK,
     <<"bei", "zhu">>}

\* df.columns: pandas keeps the labels distinct.
ColumnLists ==
    UNION {{c \in [1..n -> Headers] : \A i, j \in 1..n : i # j => c[i] # c[j]} :
           n \in 0..MaxCols}

DigitRuns == UNION {[1..n -> {"1", "2"}] : n \in 1..MaxDigits}

BAK == <<".", "b", "a", "k">>

\* Arguments of extract_contract_number.
NamesA ==
    {pre \o PREFIX \o d \o e \o t :
        pre \in {<<>>, <<"x">>},
        d \in DigitRuns \cup {<<>>, <<"1", "a">>},
        e \in {DOTPDF, <<>>, Upper(DOTPDF)},
        t \in {<<>>, BAK \o DOTPDF, <<"x">>}}

\* Arguments of extract_name_and_id_from_filename.
NamesB ==
    {pre \o p \o n \o i \o e \o t :
        pre \in {<<>>, <<"x">>},
        p \in {PREFIX, <<>>},
        n \in {<<>>, ZHANG, ZHANG \o <<"1">>},
        i \in {ID17 \o <<"X">>, ID17 \o <<"x">>, ID17 \o <<"4">>, ID17, ID17 \o <<"y">>},
        e \in {DOTPDF, <<>>, Upper(DOTPDF)},
        t \in {<<>>, BAK \o DOTPDF, <<"x">>}}

RECURSIVE JoinDash(_)
JoinDash(segs) ==
    IF Len(segs) = 1 THEN segs[1]
    ELSE segs[1] \o <<"-">> \o JoinDash(Tail(segs))

Segments ==
    {<<>>, <<" ">>, ZHANG, <<" ", "li", " ">>, MARKER, MARKER \o <<"x">>}

\* Arguments of extract_name_from_filename.
NamesC ==
    {JoinDash(segs) \o paren \o e :
        segs \in UNION {[1..n -> Segments] : n \in 1..MaxSegs},
        paren \in {<<>>, <<"(", "2", ")">>, <<"(", ")">>},
        e \in {DOTPDF, <<>>}}

Calls ==
    [fn : {"mapping_columns", "id_col", "name_col"}, arg : ColumnLists]
        \cup [fn : {"extract_contract_number"}, arg : NamesA]
        \cup [fn : {"extract_name_and_id_from_filename"}, arg : NamesB]
        \cup [fn : {"extract_name_from_filename"}, arg : NamesC]

\* No pipeline runs; one call is pending.
CallInit ==
    /\ call \in Calls
    /\ ret = NotReturned
    /\ pipeline = "rename" /\ ext = "xls" /\ run = "first" /\ pc = "call"
    /\ folder = EmptyDir /\ out = EmptyDir
    /\ disk = [excel |-> NoFile, backup |-> NoFile, xlsx |-> NoFile]
    /\ df_excel = NoFile /\ original = NoFile
    /\ pdf_files = <<>> /\ idx = 1
    /\ success_count = 0 /\ failed_count = 0 /\ skipped_count = 0
    /\ matched_count = 0 /\ unmatched_count = 0 /\ error_count = 0
    /\ log = <<>>
    /\ nofail = [folder |-> EmptyDir, out |-> EmptyDir, log |-> <<>>]
    /\ failures = 0
    /\ history = [log |-> <<>>, out |-> EmptyDir, pc |-> "start"]

pipelineVars == <<pipeline, ext, run, pc, folder, out, disk, df_excel, original,
                  pdf_files, idx, counters, log, nofail, failures, history>>

Pending(fn) == pc = "call" /\ call.fn = fn /\ ~ret.done

\* main.py lines 56-75
ResolveMappingColumns ==
    /\ Pending("mapping_columns")
    /\ ret' = Returned(mapping_columns(call.arg))
    /\ UNCHANGED <<call, pipelineVars>>

\* match_pdfs.py lines 57-70
ResolveIdColumn ==
    /\ Pending("id_col")
    /\ ret' = Returned(id_col(call.arg))
    /\ UNCHANGED <<call, pipelineVars>>

\* match_pdfs_by_name.py lines 57-68
ResolveNameColumn ==
    /\ Pending("name_col")
    /\ ret' = Returned(name_col(call.arg))
    /\ UNCHANGED <<call, pipelineVars>>

\* main.py lines 105-119
ExtractContractNumber ==
    /\ Pending("extract_contract_number")
    /\ ret' = Returned(extract_contract_number(call.arg))
    /\ UNCHANGED <<call, pipelineVars>>

\* match_pdfs.py lines 113-153
ExtractNameAndId ==
    /\ Pending("extract_name_and_id_from_filename")
    /\ ret' = Returned(extract_name_and_id_from_filename(call.arg))
    /\ UNCHANGED <<call, pipelineVars>>

\* match_pdfs_by_name.py lines 104-154
ExtractName ==
    /\ Pending("extract_name_from_filename")
    /\ ret' = Returned(extract_name_from_filename(call.arg))
    /\ UNCHANGED <<call, pipelineVars>>

CallNext ==
    \/ ResolveMappingColumns
    \/ ResolveIdColumn
    \/ ResolveNameColumn
    \/ ExtractContractNumber
    \/ ExtractNameAndId
    \/ ExtractName

CallSpec == CallInit /\ [][CallNext]_vars

(***************************************************************************)
(* Properties                                                              *)
(***************************************************************************)
\* The extractor of the running pipeline.
Extract(p, f) ==
    CASE p = "rename" -> extract_contract_number(f)
      [] p = "copy" -> extract_name_and_id_from_filename(f)
      [] p = "move" -> extract_name_from_filename(f)

\* The main loop takes a step.
LoopStep == pc = "loop" /\ idx <= Len(pdf_files) /\ idx' = idx + 1

\* C1: in each pipeline every document of the scan snapshot causes exactly
\* one counter increment: after k iterations the three counters of the
\* pipeline sum to k, and when the loop has ended they sum to the number of
\* documents found at scan time.
C1_CountersSumToTotal ==
    pc \in {"loop", "done"} =>
        /\ Len(log) = idx - 1
        /\ pipeline = "rename" => success_count + failed_count + skipped_count = idx - 1
        /\ pipeline \in {"copy", "move"} =>
              matched_count + unmatched_count + error_count = idx - 1
        /\ pc = "done" => idx - 1 = Len(pdf_files)

C1_Witness ==
    /\ pc = "done" /\ pipeline = "copy" /\ Len(pdf_files) = 2
    /\ matched_count = 1 /\ unmatched_count = 1

\* C2: in the copy and move pipelines the destination of a matched document
\* is its own filename when that is free in the output folder, otherwise
\* <stem>_<k>.pdf for the smallest k >= 1 whose name is not present; no
\* entry of the output folder is ever replaced or removed.
C2_SmallestFreeSuffix ==
    [][/\ \A n \in DOMAIN out : n \in DOMAIN out' /\ out'[n] = out[n]
       /\ (LoopStep /\ pipeline \in {"copy", "move"} /\ log'[idx].dest # None) =>
            LET f == pdf_files[idx]
                d == log'[idx].dest
                stem == SubSeq(f, 1, Len(f) - Len(DOTPDF))
                name(k) == stem \o <<"_">> \o IntStr(k) \o DOTPDF
            IN /\ f \notin DOMAIN out => d = f
               /\ f \in DOMAIN out =>
                    \E k \in 1..(Cardinality(DOMAIN out) + 1) :
                       /\ d = name(k)
                       /\ d \notin DOMAIN out
                       /\ \A j \in 1..(k - 1) : name(j) \in DOMAIN out
               /\ log'[idx].kind = "ok" => d \in DOMAIN out' /\ out'[d].data = folder[f]
      ]_vars

C2_Witness ==
    \E i \in 1..Len(log) :
        /\ log[i].kind = "ok"
        /\ log[i].dest = Stem(log[i].file) \o <<"_", "2">> \o DOTPDF
        /\ log[i].dest \in DOMAIN out

\* The copies the first run made under the plain filename are still there,
\* and the second run has added a copy with the suffix _1 for each of them.
SecondRunCopiedAgain ==
    /\ \A n \in DOMAIN history.out : n \in DOMAIN out /\ out[n] = history.out[n]
    /\ \A i \in 1..Len(history.log) :
         (history.log[i].kind = "ok" /\ history.log[i].dest = history.log[i].file) =>
            LET f == history.log[i].file
                again == SubSeq(f, 1, Len(f) - Len(DOTPDF)) \o <<"_", "1">> \o DOTPDF
            IN /\ again \in DOMAIN out
               /\ out[again] = [data |-> folder[f], by |-> "second"]

\* C3: running the copy pipeline twice with the same arguments leaves the
\* first run's copies untouched and makes the second run add a copy with a
\* _1 suffix for each matched document, whatever the spreadsheet's suffix
\* (no filesystem call raising in either run).
C3_TwiceCopiesTwice ==
    (/\ pipeline = "copy" /\ ext \in {"xls", "xlsx"}
     /\ run = "second" /\ pc \in {"done", "aborted"}
     /\ history.pc = "done" /\ failures = 0)
        => SecondRunCopiedAgain

\* The destination name the rename pipeline composes for document f, None
\* when f carries no contract number, the number is not in the mapping, or
\* the name or the ID of its row is empty or "nan".
ComposedDest(f) ==
    LET key == extract_contract_number(f)
        mapping == read_excel_mapping(df_excel.rows)
        usable(t) == Strip(t) # <<>> /\ Strip(t) # NanText
    IN IF key # None /\ key \in DOMAIN mapping
          /\ usable(mapping[key][1]) /\ usable(mapping[key][2])
       THEN PREFIX \o mapping[key][1] \o mapping[key][2] \o DOTPDF
       ELSE None

\* The rename loop meets a destination that exists and is not the source:
\* nothing is renamed, one attempt, one failure counted.
CollisionIsRefused ==
    (/\ LoopStep /\ pipeline = "rename"
     /\ ComposedDest(pdf_files[idx]) \in DOMAIN folder
     /\ ComposedDest(pdf_files[idx]) # pdf_files[idx])
        => /\ folder' = folder
           /\ Len(log') = Len(log) + 1
           /\ log'[idx].kind = "exists"
           /\ failed_count' = failed_count + 1
           /\ success_count' = success_count
           /\ skipped_count' = skipped_count

\* A step of the rename loop leaves every other file of the folder as it is.
RenameOverwritesNothing ==
    (LoopStep /\ pipeline = "rename")
        => \A n \in DOMAIN folder \ {pdf_files[idx]} :
              n \in DOMAIN folder' /\ folder'[n] = folder[n]

\* Documents of this run that resolved to the same destination name.
SameDest(i, j) ==
    /\ i < j
    /\ log[i].dest # None
    /\ log[i].dest = log[j].dest

C5_NoMatchIsSkipped ==
    [][(LoopStep /\ Extract(pipeline, pdf_files[idx]) = None) =>
          /\ folder' = folder /\ out' = out /\ disk' = disk
          /\ pc' = "loop"
          /\ log'[idx] = [file |-> pdf_files[idx], kind |-> "skip", dest |-> None]
          /\ error_count' = error_count /\ failed_count' = failed_count
          /\ matched_count' = matched_count /\ success_count' = success_count
          /\ failures' = failures
          /\ pipeline = "rename" =>
                skipped_count' = skipped_count + 1 /\ unmatched_count' = unmatched_count
          /\ pipeline # "rename" =>
                unmatched_count' = unmatched_count + 1 /\ skipped_count' = skipped_count
      ]_vars

C5_Witness ==
    /\ pc = "done" /\ Len(log) = 2
    /\ log[1].kind = "skip" /\ log[2].kind = "ok"

\* A step of a main loop in which the filesystem call raised.
RaisingStep == LoopStep /\ failures' = failures + 1

\* The raising call is caught and counted once, for its document only, and
\* the loop goes on.
FailureIsCountedOnce ==
    RaisingStep =>
        /\ pc' = "loop"
        /\ log'[idx].kind = "error"
        /\ success_count' = success_count /\ skipped_count' = skipped_count
        /\ matched_count' = matched_count /\ unmatched_count' = unmatched_count
        /\ IF pipeline = "rename"
           THEN failed_count' = failed_count + 1 /\ error_count' = error_count
           ELSE error_count' = error_count + 1 /\ failed_count' = failed_count

\* No step of a main loop ends the run: the loop leaves only at the end of
\* the snapshot.
BatchNeverAborts ==
    /\ LoopStep => pc' = "loop"
    /\ pc = "loop" => pc' # "aborted"
    /\ (pc = "loop" /\ pc' = "done") => Len(log) = Len(pdf_files)

\* Classifications decided before any filesystem call.
PreKinds == {"skip", "unmatched", "warn_name", "warn_id"}

\* The names document i touched or would have touched, with and without
\* the failures.
NamesOf(i) == {log[i].dest, nofail.log[i].dest, log[i].file} \ {None}

DestsOf(j) == {log[j].dest, nofail.log[j].dest} \ {None}

\* C6 as stated: a raising filesystem call is caught and counted once for
\* its document, the batch never aborts, and every document after a failed
\* one is processed exactly as in the run without the failure.
C6_FailureIsIsolated ==
    /\ [][FailureIsCountedOnce /\ BatchNeverAborts]_vars
    /\ [](pc \in {"loop", "done"} =>
            /\ Len(nofail.log) = Len(log)
            /\ \A i, j \in 1..Len(log) :
                 (i < j /\ log[i].kind = "error") => log[j] = nofail.log[j])

\* C6 (amended): a raising filesystem call is caught and counted once for
\* its document, the batch never aborts and every document is processed;
\* a document whose own call does not raise is classified before the
\* filesystem exactly as without the failures, and its outcome differs from
\* the failure-free run only when a destination name of it is a name that an
\* earlier document with a differing outcome touched (in the copy and move
\* pipelines the difference is the numeric suffix only).
C6_FailureIsIsolatedUpToNames ==
    /\ [][FailureIsCountedOnce /\ BatchNeverAborts]_vars
    /\ [](pc \in {"loop", "done"} =>
            /\ Len(nofail.log) = Len(log)
            /\ failures = 0 => log = nofail.log
            /\ \A j \in 1..Len(log) :
                 /\ nofail.log[j].kind # "error"
                 /\ nofail.log[j].file = log[j].file
                 /\ (log[j].kind \in PreKinds \/ nofail.log[j].kind \in PreKinds)
                       => log[j] = nofail.log[j]
                 /\ (log[j].kind # "error" /\ log[j] # nofail.log[j]) =>
                       /\ pipeline # "rename" => log[j].kind = nofail.log[j].kind
                       /\ \E i \in 1..(j - 1) :
                            /\ log[i] # nofail.log[i]
                            /\ NamesOf(i) \cap DestsOf(j) # {})

C6_Witness ==
    /\ pc = "done"
    /\ \E i, j \in 1..Len(log) :
         /\ i < j
         /\ log[i].kind = "error"
         /\ log[j].kind = "ok" /\ log[j] = nofail.log[j]

\* The spreadsheet's ID keys as the copy pipeline loads them.
SheetIds == {FloatFix(CellText(df_excel.rows[i].id)) :
               i \in {k \in 1..Len(df_excel.rows) : ~IsNullCell(df_excel.rows[k].id)}}

\* C7 as stated: in the copy pipeline a document whose filename ID equals a
\* spreadsheet ID up to the case of the check character is matched and
\* copied, and the membership test of the main loop agrees with the one of
\* the annotation pass for every (filename ID, spreadsheet ID) pair.
C7_CaseInsensitiveJoin ==
    /\ [][(/\ LoopStep /\ pipeline = "copy" /\ failures' = failures
           /\ Extract("copy", pdf_files[idx]) # None
           /\ \E k \in SheetIds : Upper(k) = Upper(Extract("copy", pdf_files[idx])[2]))
             => /\ log'[idx].kind = "ok"
                /\ log'[idx].dest \in DOMAIN out'
                /\ matched_count' = matched_count + 1]_vars
    /\ []((pipeline = "copy" /\ pc = "loop") =>
            \A n \in 1..Len(pdf_files) :
               Extract("copy", pdf_files[n]) # None =>
                  \A k \in SheetIds :
                     (Extract("copy", pdf_files[n])[2] \in {k})
                        <=> (Upper(k) \in pdf_id_numbers(<<pdf_files[n]>>)))

\* The rename loop processes a document with a usable payload and a free
\* destination.
FreeDestStep ==
    /\ LoopStep /\ pipeline = "rename"
    /\ ComposedDest(pdf_files[idx]) # None
    /\ ComposedDest(pdf_files[idx]) \notin DOMAIN folder

\* The document of this step is renamed to the composed name and counted as
\* success.
RenamedToComposed ==
    /\ log'[idx].kind = "ok"
    /\ success_count' = success_count + 1
    /\ failed_count' = failed_count /\ skipped_count' = skipped_count
    /\ ComposedDest(pdf_files[idx]) \in DOMAIN folder'
    /\ folder'[ComposedDest(pdf_files[idx])] = folder[pdf_files[idx]]
    /\ pdf_files[idx] \notin DOMAIN folder'

\* The document of this step keeps its name and is counted as failed.
KeptAndFailed ==
    /\ folder' = folder
    /\ pdf_files[idx] \in DOMAIN folder'
    /\ failed_count' = failed_count + 1
    /\ success_count' = success_count /\ skipped_count' = skipped_count

\* A document with a contract number whose key is absent from the mapping,
\* or whose name or ID is empty or "nan", keeps its name and counts as failed.
UnusableIsFailed ==
    (/\ LoopStep /\ pipeline = "rename"
     /\ extract_contract_number(pdf_files[idx]) # None
     /\ ComposedDest(pdf_files[idx]) = None)
        => /\ KeptAndFailed
           /\ log'[idx].kind \in {"unmatched", "warn_name", "warn_id"}

\* What a step of the rename loop decided stays so to the end of the run.
RenameOutcomesStay ==
    (pipeline = "rename" /\ pc \in {"loop", "done"}) =>
        \A i \in 1..Len(log) :
           /\ log[i].kind = "ok" =>
                 /\ log[i].dest \in DOMAIN folder
                 /\ log[i].dest # log[i].file => log[i].file \notin DOMAIN folder
           /\ log[i].kind \notin {"ok"} => log[i].file \in DOMAIN folder

\* C8 as stated: a document with a usable payload and a free destination
\* ends the run under the composed name and is counted as success; one whose
\* key is absent or whose name or ID is empty or "nan" keeps its name and is
\* counted as failed.
C8_ValidPayloadRenamed ==
    /\ [][(FreeDestStep => RenamedToComposed) /\ UnusableIsFailed]_vars
    /\ []RenameOutcomesStay

\* C8 (amended): a document with a usable payload and a free destination
\* whose rename call does not raise ends the run under the composed name and
\* is counted as success (when the call raises it keeps its name and is
\* counted as failed); one whose key is absent or whose name or ID is empty
\* or "nan" keeps its name and is counted as failed.
C8_ValidPayloadRenamedUnlessRaise ==
    /\ [][/\ (FreeDestStep /\ failures' = failures) => RenamedToComposed
          /\ (FreeDestStep /\ failures' # failures) =>
                (KeptAndFailed /\ log'[idx].kind = "error")
          /\ UnusableIsFailed]_vars
    /\ []RenameOutcomesStay

C8_Witness ==
    /\ pipeline = "rename" /\ pc = "done" /\ Len(log) = 2
    /\ log[1].kind = "ok" /\ log[1].dest \in DOMAIN folder
    /\ log[1].file \notin DOMAIN folder
    /\ log[2].kind = "warn_id" /\ log[2].file \in DOMAIN folder

\* The annotation pass with its write-back takes place.
AnnotateStep ==
    pipeline \in {"copy", "move"} /\ pc = "loop" /\ pc' = "done"

\* The annotation key of a row, None for a null, empty or "nan" cell.
RowKey(row) ==
    IF pipeline = "copy"
    THEN IF IsNullCell(row.id) THEN None ELSE Upper(FloatFix(CellText(row.id)))
    ELSE IF IsNullCell(row.name) THEN None ELSE CellText(row.name)

\* The keys extractable from all documents of the scan snapshot.
SnapshotKeys ==
    {IF pipeline = "copy" THEN Upper(Extract("copy", pdf_files[n])[2])
     ELSE Extract("move", pdf_files[n]) :
        n \in {m \in 1..Len(pdf_files) : Extract(pipeline, pdf_files[m]) # None}}

\* C9: the annotation pass marks a row with a non-null key "success" exactly
\* when its normalized key is among the keys of all documents of the scan
\* snapshot and "failure" otherwise, leaves the mark of a row with a null,
\* empty or "nan" key as it was, and changes no counter.
C9_AnnotationMarks ==
    [][AnnotateStep =>
          /\ UNCHANGED counters
          /\ df_excel'.rows = df_excel.rows
          /\ df_excel'.hasMark
          /\ Len(df_excel'.marks) = Len(df_excel.rows)
          /\ \A i \in 1..Len(df_excel.rows) :
               IF RowKey(df_excel.rows[i]) = None
               THEN df_excel'.marks[i] =
                       (IF df_excel.hasMark THEN df_excel.marks[i] ELSE "")
               ELSE df_excel'.marks[i] =
                       (IF RowKey(df_excel.rows[i]) \in SnapshotKeys
                        THEN SUCCESS ELSE FAILURE)
      ]_vars

C9_Witness ==
    /\ pc = "done" /\ pipeline \in {"copy", "move"} /\ run = "first"
    /\ \E i \in 1..Len(log) : log[i].kind = "error"
    /\ Len(df_excel.rows) = 2
    /\ df_excel.marks[1] = SUCCESS
    /\ df_excel.marks[2] \in {FAILURE, ""}

\* C10 as stated: whichever step of the write-back fails, the run ends
\* normally with its tally unchanged and the spreadsheet's original content
\* is on disk at the original path or at the backup path; after a successful
\* write-back the backup holds the content read by this run.
C10_WriteBackKeepsOriginal ==
    [][AnnotateStep =>
          /\ UNCHANGED counters
          /\ original \in {disk'.excel, disk'[BackupSlot(ext)]}
          /\ (failures' = failures /\ disk'[TargetSlot(ext)] = df_excel')
                => disk'[BackupSlot(ext)] = original
      ]_vars

\* Position of the first header that contains one of the markers, 0 when no
\* header does.
FirstWith(columns, marks) ==
    LET hits == {i \in 1..Len(columns) :
                   \E m \in marks : Contains(Strip(columns[i]), m)}
    IN IF hits = {} THEN 0 ELSE CHOOSE i \in hits : \A j \in hits : i <= j

\* The call failed with an error that lists all the headers.
FailedListing(columns) ==
    /\ "error" \in DOMAIN ret.value
    /\ ret.value.columns = columns

\* No header of the list carries the markers of two different columns.
OneMarkerPerHeader(columns) ==
    \A k \in 1..Len(columns) :
       Cardinality({m \in {CONTRACT_MARK, NAME_MARK, ID_MARK_SHORT} :
                       Contains(Strip(columns[k]), m)}) <= 1

\* C11 as stated: every loader resolves each of its markers to the first
\* column whose header contains it, and fails with an error that lists all
\* the headers when a marker is in no header (checked on the header lists
\* in which no header carries two markers).
C11_FirstColumnChosen ==
    (ret.done /\ OneMarkerPerHeader(call.arg)) =>
        LET c == FirstWith(call.arg, {CONTRACT_MARK})
            n == FirstWith(call.arg, {NAME_MARK})
            i == FirstWith(call.arg, {ID_MARK, ID_MARK_SHORT})
        IN /\ call.fn = "mapping_columns" =>
                 IF c = 0 \/ n = 0 \/ i = 0 THEN FailedListing(call.arg)
                 ELSE ret.value = [contract_col |-> c, name_col |-> n, id_col |-> i]
           /\ call.fn = "id_col" =>
                 IF i = 0 THEN FailedListing(call.arg) ELSE ret.value = [id_col |-> i]
           /\ call.fn = "name_col" =>
                 IF n = 0 THEN FailedListing(call.arg) ELSE ret.value = [name_col |-> n]

\* The digits d when the whole of s is PREFIX, d, ".pdf" with d one or more
\* digits, None for any other s.
ExactContractNumber(s) ==
    LET lo == Len(PREFIX) + 1
        hi == Len(s) - Len(DOTPDF)
    IN IF StartsWith(s, PREFIX) /\ EndsWith(s, DOTPDF) /\ AllDigits(s, lo, hi)
       THEN SubSeq(s, lo, hi)
       ELSE None

\* C12 as stated: extract_contract_number returns d exactly when the whole
\* filename is the prefix, the digits d and ".pdf", and None for every other
\* filename, also for one that goes on after such a beginning.
C12_AnchoredBothEnds ==
    (ret.done /\ call.fn = "extract_contract_number") =>
        ret.value = ExactContractNumber(call.arg)

\* s is the prefix, a name of n characters, an 18-character ID token and the
\* extension, with nothing before and nothing after (the extension in
\* either case).
ShapeB(s, n) ==
    /\ StartsWith(s, PREFIX)
    /\ IdAt(s, Len(PREFIX) + n + 1)
    /\ HasAtIgnoreCase(s, Len(PREFIX) + n + IDLEN + 1, DOTPDF)
    /\ Len(s) = Len(PREFIX) + n + IDLEN + Len(DOTPDF)

\* C13 as stated: extract_name_and_id_from_filename returns a pair only for
\* a filename that is the prefix, a name, an 18-character ID token and the
\* extension, with nothing before the prefix and nothing after the
\* extension; it returns a pair for every such filename with a non-empty
\* name and the extension ".pdf"; the ID returned is 17 digits and a digit
\* or "X"; the name and the ID, compared without case, make up the stem
\* after the prefix.
C13_WholeNameShape ==
    (ret.done /\ call.fn = "extract_name_and_id_from_filename") =>
        LET s == call.arg
            stem == Slice(s, Len(PREFIX) + 1, Len(s) - Len(DOTPDF))
        IN /\ ret.value # None =>
                 /\ \E n \in 0..Len(s) : ShapeB(s, n)
                 /\ Len(ret.value[2]) = IDLEN
                 /\ AllDigits(ret.value[2], 1, IDLEN - 1)
                 /\ ret.value[2][IDLEN] \in Digits \cup {"X"}
                 /\ Upper(ret.value[1] \o ret.value[2]) = Upper(stem)
           /\ (EndsWith(s, DOTPDF) /\ \E n \in 1..Len(s) : ShapeB(s, n))
                 => ret.value # None

\* t is "(digits)" or nothing, followed by ".pdf" and nothing more.
IsTail(t) ==
    \/ t = DOTPDF
    \/ /\ Len(t) >= Len(DOTPDF) + 3
       /\ t[1] = "("
       /\ \A k \in 2..(Len(t) - Len(DOTPDF) - 1) : t[k] \in Digits
       /\ t[Len(t) - Len(DOTPDF)] = ")"
       /\ SubSeq(t, Len(t) - Len(DOTPDF) + 1, Len(t)) = DOTPDF

Rest(s, p) == Slice(s, p, Len(s))

\* `<name>-MARKER[(digits)].pdf`: the trimmed first segment, the shortest one
\* when several fit; the empty text when the filename is not of this form.
FirstForm(s) ==
    LET fits == {n \in 1..Len(s) :
                   \E t \in {Rest(s, n + 2 + Len(MARKER))} :
                      s = SubSeq(s, 1, n) \o <<"-">> \o MARKER \o t /\ IsTail(t)}
    IN IF fits = {} THEN <<>> ELSE Strip(SubSeq(s, 1, Min(fits)))

\* `MARKER-<name>[(digits)].pdf`: the trimmed second segment without the
\* parenthesised digits.
SecondForm(s) ==
    LET from == Len(MARKER) + 2
        fits == {n \in 1..(Len(s) - from + 1) :
                   \E t \in {Rest(s, from + n)} :
                      s = MARKER \o <<"-">> \o Slice(s, from, from + n - 1) \o t /\ IsTail(t)}
    IN IF fits = {} THEN <<>> ELSE Strip(Slice(s, from, from + Min(fits) - 1))

\* `<segment1>-<segment2>[(digits)].pdf`: the two trimmed segments, the
\* first as short as possible, then the second; <<>> when no split fits.
TwoSegments(s) ==
    LET seconds(a) == {b \in 1..Len(s) : IsTail(Rest(s, a + 2 + b))}
        firsts == {a \in 1..Len(s) : a < Len(s) /\ s[a + 1] = "-" /\ seconds(a) # {}}
    IN IF firsts = {} THEN <<>>
       ELSE LET a == Min(firsts)
                b == Min(seconds(a))
            IN <<Strip(SubSeq(s, 1, a)), Strip(SubSeq(s, a + 2, a + 1 + b))>>

\* The generic form: segment1 when segment2 contains the marker, otherwise
\* segment2 when segment1 contains it; an empty candidate is no result.
GenericForm(s) ==
    LET seg == TwoSegments(s)
        pick == IF seg = <<>> THEN <<>>
                ELSE IF Contains(seg[2], MARKER) THEN seg[1]
                ELSE IF Contains(seg[1], MARKER) THEN seg[2]
                ELSE <<>>
    IN pick

\* C14: extract_name_from_filename returns the name of the first of the
\* three forms, tried in this order, that gives a name non-empty after
\* trimming, never the empty text, and None when no form gives one.
C14_PatternPrecedence ==
    (ret.done /\ call.fn = "extract_name_from_filename") =>
        /\ ret.value # <<>>
        /\ ret.value =
              (IF FirstForm(call.arg) # <<>> THEN FirstForm(call.arg)
               ELSE IF SecondForm(call.arg) # <<>> THEN SecondForm(call.arg)
               ELSE IF GenericForm(call.arg) # <<>> THEN GenericForm(call.arg)
               ELSE None)

\* `MARKER-zhang(2).pdf` resolved to `zhang` by the second form.
C14_Witness ==
    /\ ret.done /\ call.fn = "extract_name_from_filename"
    /\ call.arg = MARKER \o <<"-">> \o ZHANG \o <<"(", "2", ")">> \o DOTPDF
    /\ FirstForm(call.arg) = <<>>
    /\ ret.value = ZHANG

\* The entries this run added to the output folder.
NewFiles == {n \in DOMAIN out : out[n].by = run}

\* The documents of the scan snapshot.
Scanned == {pdf_files[i] : i \in 1..Len(pdf_files)}

\* Document i of the snapshot was copied or moved by this run.
IsDone(i) == i <= Len(log) /\ log[i].kind = "ok"

\* The rename pipeline keeps the number of files and loses no content.
RenameConserves ==
    /\ Cardinality(DOMAIN folder) = Len(pdf_files)
    /\ Cardinality({folder[n] : n \in DOMAIN folder}) = Len(pdf_files)

\* The copy pipeline leaves the scanned folder as it was.
CopyKeepsFolder == folder = [n \in Scanned |-> n]

\* A moved document is in the output folder only, any other document of the
\* snapshot is still in the source folder.
MoveKeepsOrMoves ==
    \A i \in 1..Len(pdf_files) :
       IF IsDone(i)
       THEN /\ pdf_files[i] \notin DOMAIN folder
            /\ log[i].dest \in DOMAIN out
            /\ out[log[i].dest] = [data |-> pdf_files[i], by |-> run]
       ELSE /\ pdf_files[i] \in DOMAIN folder
            /\ folder[pdf_files[i]] = pdf_files[i]

====
